---- MODULE Spec2Model ----
(***************************************************************************)
(* A model of the WAF comparison tool's dispatch pipeline:                 *)
(*   helper.send_request      one HTTP request with retry                   *)
(*   Wafs.check_connection    the pre-flight health / functionality checks  *)
(*   Wafs.send_payloads       the (test case x WAF) loop                    *)
(*   Wafs._send_payloads      one batch: thread pool, row building, append  *)
(*   runner.main              the order in which a run calls them           *)
(*                                                                         *)
(* Strings that the code inspects (bodies, urls, data) are sequences of     *)
(* one-character strings. Durations are in tenths of a second.              *)
(***************************************************************************)
EXTENDS Integers, Sequences, FiniteSets, TLC

VARIABLES
    sr,           \* the send_request call under test (specification SpecSend)
    wafs,         \* Wafs.wafs: the name -> URL dict, in insertion order
    max_workers,  \* Wafs.max_workers
    fast_mode,    \* Wafs.fast_mode
    store,        \* the results table: [exists, rows]
    store0,       \* the results table as the run found it
    pc,           \* where the control thread is
    exitCode,     \* the process exit status, -1 while running
    fatal,        \* why the process ended early, "none" otherwise
    checkIdx,     \* check_connection: WAFs checked so far
    results,      \* check_connection: the summary rows
    check_failed, \* check_connection: the flag
    files,        \* send_payloads: the enumerated test-case files
    fileIdx,      \* send_payloads: index of the current file
    wafIdx,       \* send_payloads: index of the current WAF
    data,         \* send_payloads: the current payload list (shared with the workers)
    loaded,       \* the payload list as load_json_file returned it, before sampling
    tasks,        \* _send_payloads: the futures of executor.map, in submission order
    completed,    \* _send_payloads: task indices in the order they completed
    failures,     \* transport exceptions raised so far in the run
    dispatchLog,  \* the (file, url) pairs _send_payloads was called with, in order
    recordLog,    \* the (file, url, WAF_Name) batches appended to the table, in order
    dropCount,    \* how many times drop_table_if_exists was called
    loadCount,    \* how many times load_json_file was called
    probes,       \* check_connection: what the two probes of each checked WAF returned
    report,       \* the reporting query made last and its result (specification SpecReport)
    corpus,       \* the files load_json_file returned, with their payload counts
    rng,          \* the random module's generator: outputs drawn since seed(42)
    sampleLog,    \* the _sample_data calls made so far (specification SpecSample)
    ew            \* the _execute_workflow call (specification SpecWorkflow)

vars == <<sr, wafs, max_workers, fast_mode, store, store0, pc, exitCode, fatal,
          checkIdx, results, check_failed, files, fileIdx, wafIdx, data, loaded,
          tasks, completed, failures, dispatchLog, recordLog, dropCount, loadCount, probes, report,
          corpus, rng, sampleLog, ew>>

runVars == <<wafs, max_workers, fast_mode, store, store0, pc, exitCode, fatal,
             checkIdx, results, check_failed, files, fileIdx, wafIdx, data, loaded,
             tasks, completed, failures, dispatchLog, recordLog, dropCount, loadCount, probes, report,
             corpus, rng, sampleLog, ew>>

\* the variables of a Wafs object and of the run it drives
wafsVars == <<wafs, max_workers, fast_mode, store, store0, pc, exitCode, fatal,
              checkIdx, results, check_failed, files, fileIdx, wafIdx, data, loaded,
              tasks, completed, failures, dispatchLog, recordLog, dropCount, loadCount, probes, report,
              corpus>>

-----------------------------------------------------------------------------
(* Bounds of the model *)

\* longest response body explored by SpecSend
MaxBody == 3
\* most payloads in one test-case file
MaxPayloads == 2
\* most test-case files the corpus enumeration returns
MaxFiles == 2
\* largest thread-pool size
MaxWorkers == 2
\* most transport exceptions the network raises during one run
MaxFailures == 3

-----------------------------------------------------------------------------
(* Strings *)

NUL == "\\x00"
FFFD == "\\uFFFD"

\* the characters of response bodies; "r","j" spell the rejection marker
BodyChars == {"r", "j", "x"}

\* "The requested URL was rejected. Please consult with your administrator."
Marker == <<"r", "j">>

RECURSIVE SeqsUpTo(_, _)
SeqsUpTo(S, n) ==
    IF n = 0 THEN {<<>>}
    ELSE LET shorter == SeqsUpTo(S, n - 1)
         IN shorter \cup {Append(s, c) : s \in {t \in shorter : Len(t) = n - 1}, c \in S}

IsPrefix(p, s) == Len(p) <= Len(s) /\ SubSeq(s, 1, Len(p)) = p

\* Python's `needle in hay` for str: scan the start positions left to right
RECURSIVE StrContains(_, _)
StrContains(hay, needle) ==
    IF Len(hay) < Len(needle) THEN FALSE
    ELSE IF IsPrefix(needle, hay) THEN TRUE
    ELSE StrContains(Tail(hay), needle)

KeepNul(s) == s

\* str.replace("\x00", "\uFFFD")
RECURSIVE ReplaceNul(_)
ReplaceNul(s) ==
    IF s = <<>> THEN <<>>
    ELSE <<IF Head(s) = NUL THEN FFFD ELSE Head(s)>> \o ReplaceNul(Tail(s))

\* str.lower() on the header names the fixtures use
Lower(k) ==
    CASE k \in {"Host", "HOST", "hOsT", "host"} -> "host"
      [] k = "User-Agent" -> "user-agent"
      [] k = "X-Host" -> "x-host"
      [] OTHER -> k

-----------------------------------------------------------------------------
(* helper.send_request *)

RetryLimitOffByOne == 3 + 1

\* `while attempts < 3`
RetryLimit == 3

ZeroResult == [status |-> 0, blocked |-> FALSE]

\* `res` before any response was obtained
NoResponse == [status |-> 0, body |-> <<>>]

NotHostExact(x) == x.k # "Host"
StripHostExact(h) == SelectSeq(h, NotHostExact)

\* the header loop: pop every key whose lower() is "host"; a dict is a
\* sequence of [k, v] items in insertion order
RECURSIVE StripHost(_)
StripHost(h) ==
    IF h = <<>> THEN <<>>
    ELSE IF Lower(Head(h).k) = "host" THEN StripHost(Tail(h))
    ELSE <<Head(h)>> \o StripHost(Tail(h))

BlockedStatusOnly(status, body) == status = 403

\* "<marker>" in res.text or res.status_code == 403
Blocked(status, body) == StrContains(body, Marker) \/ status = 403

\* the list send_request returns for a response
Classify(resp) == [status |-> resp.status, blocked |-> Blocked(resp.status, resp.body)]

\* the locals of a send_request call right after the header loop, which pops
\* from the caller's own dict: req.headers is that dict, arg0 what it held at the call
SrEnter(method, url, headers, body) ==
    [pc       |-> "loop",
     req      |-> [method |-> method, url |-> url, headers |-> StripHost(headers), data |-> body],
     attempts |-> 0,
     waits    |-> <<>>,
     log      |-> <<>>,
     res      |-> NoResponse,
     ret      |-> ZeroResult,
     arg0     |-> headers]

\* what requests.request does: raise, or hand back a response
Raise == [raised |-> TRUE, status |-> 0, body |-> <<>>]
Response(status, body) == [raised |-> FALSE, status |-> status, body |-> body]

\* the except clause: time.sleep(0.1 * attempts), attempts already incremented
Backoff(attempts) == <<attempts>>

\* one iteration of the while loop
SrAttempt(s, outcome) ==
    IF outcome.raised
    THEN [s EXCEPT !.attempts = @ + 1,
                   !.waits = @ \o Backoff(s.attempts + 1),
                   !.log = Append(@, "raise")]
    ELSE [s EXCEPT !.pc = "returned",
                   !.res = [status |-> outcome.status, body |-> outcome.body],
                   !.ret = Classify(outcome),
                   !.log = Append(@, "response")]

\* the loop condition fails: return [0, False]
SrGiveUp(s) == [s EXCEPT !.pc = "returned", !.ret = ZeroResult]

SrCanAttempt(s) == s.pc = "loop" /\ s.attempts < RetryLimit
SrExhausted(s) == s.pc = "loop" /\ ~(s.attempts < RetryLimit)

\* no send_request call under test
SrIdle == [pc |-> "idle"]

\* no _execute_workflow call is being followed
EwIdle == [pc |-> "idle"]

\* no reporting query was made
NoReport == [query |-> "none"]

-----------------------------------------------------------------------------
(* Fixtures and the environment *)

Header(k, v) == [k |-> k, v |-> v]

\* the payloads the fixture files are made of
PayloadPool ==
    << [method |-> "GET", url |-> <<"/", "a">>,
        headers |-> <<Header("User-Agent", "ua")>>, data |-> <<>>],
       [method |-> "POST", url |-> <<"/", NUL>>,
        headers |-> <<Header("Host", "h"), Header("User-Agent", "ua")>>, data |-> <<"b">>],
       [method |-> "PUT", url |-> <<"/", "c">>,
        headers |-> <<Header("X-Host", "x"), Header("hOsT", "h")>>, data |-> <<NUL, "d">>] >>

\* n payloads of the pool from position s on
Window(s, n) == [i \in 1..n |-> PayloadPool[((s + i - 2) % Len(PayloadPool)) + 1]]

\* what load_json_file can find in the k-th test-case file: nothing it can parse,
\* or a list of up to MaxPayloads payloads
FileContents(k) ==
    {[ok |-> FALSE, payloads |-> <<>>]}
    \cup {[ok |-> TRUE, payloads |-> Window(k, n)] : n \in 0..MaxPayloads}

\* the WAF configurations of a run: names and URLs unique, as _validate_waf_config
\* leaves them, or empty
WafA == [name |-> "A", url |-> <<"http://a">>]
WafB == [name |-> "B", url |-> <<"http://b">>]
WafConfigs == {<<>>, <<WafA>>, <<WafA, WafB>>}

\* the WAFs under test: A rejects everything with 403, B lets GET through and
\* answers other methods with its block page under status 200
WafResponse(req) ==
    IF Head(req.url) = "http://a" THEN Response(403, <<>>)
    ELSE IF req.method = "GET" THEN Response(200, <<"x">>)
    ELSE Response(200, <<"x">> \o Marker)

\* responses to the two probes of check_connection
ProbeResponses ==
    {Response(200, <<"x">>), Response(200, Marker), Response(403, <<>>), Response(500, <<"x">>)}

\* everything a send_request call can return for a probe
ProbeReturns == {ZeroResult} \cup {Classify(r) : r \in ProbeResponses}

FileStems == <<"sqli_basic", "xss", "traversal", "lfi", "rce">>

\* list(MALICIOUS_PATH.rglob("*.json")) + list(LEGITIMATE_PATH.rglob("*.json")):
\* nMal files under Malicious, then nLeg under Legitimate; with `nested` the first
\* file lies in a subdirectory of its corpus directory
Enumeration(nMal, nLeg, nested) ==
    [i \in 1..(nMal + nLeg) |->
        LET root == IF i <= nMal THEN "Malicious" ELSE "Legitimate"
        IN [root   |-> root,
            parent |-> IF nested /\ i = 1 THEN "sub" ELSE root,
            stem   |-> FileStems[i]]]

Enumerations ==
    {Enumeration(c[1], c[2], c[3]) :
        c \in {d \in (0..MaxFiles) \X (0..MaxFiles) \X BOOLEAN : d[1] + d[2] <= MaxFiles}}

\* the category table (assets/file_category_mapping.json): TestName -> Category,
\* Null (NaN after Series.map) where the table has no entry
Null == "NaN"
CategoryTable(stem) ==
    CASE stem = "xss" -> "Cross Site Scripting"
      [] stem = "lfi" -> "Local File Inclusion"
      [] OTHER -> Null

\* a row a previous run left in the table
OldRow == [method |-> "GET", url |-> <<"/", "old">>, headers |-> <<"{", "}">>, data |-> <<>>,
           DestinationURL |-> <<"http://old">>, WAF_Name |-> "Old", TestName |-> "old",
           DataSetType |-> "Malicious", response_status_code |-> 200, isBlocked |-> FALSE,
           TestId |-> 1, Category |-> "old"]

Stores == {[exists |-> FALSE, rows |-> <<>>], [exists |-> TRUE, rows |-> <<OldRow>>]}

-----------------------------------------------------------------------------
(* Specification SpecSend: one send_request call against every transport *)

\* the header dicts send_request is called with (None behaves as the empty dict)
HeaderDicts ==
    {<<>>,
     <<Header("User-Agent", "ua")>>,
     <<Header("Host", "h"), Header("User-Agent", "ua")>>,
     <<Header("User-Agent", "ua"), Header("HOST", "h"), Header("host", "g")>>,
     <<Header("X-Host", "x"), Header("hOsT", "h")>>}

Responses ==
    {Response(st, b) : st \in {200, 403, 500}, b \in SeqsUpTo(BodyChars, MaxBody)}

\* the control thread and the pool while only send_request is exercised
RunIdle ==
    /\ wafs = <<>> /\ max_workers = 1 /\ fast_mode = FALSE
    /\ store = [exists |-> FALSE, rows |-> <<>>] /\ store0 = store
    /\ pc = "unit" /\ exitCode = -1 /\ fatal = "none"
    /\ checkIdx = 0 /\ results = <<>> /\ check_failed = FALSE
    /\ files = <<>> /\ fileIdx = 0 /\ wafIdx = 0 /\ data = <<>> /\ loaded = <<>>
    /\ tasks = <<>> /\ completed = <<>> /\ failures = 0
    /\ dispatchLog = <<>> /\ recordLog = <<>> /\ dropCount = 0 /\ loadCount = 0
    /\ probes = <<>> /\ report = NoReport
    /\ corpus = <<>>

InitSend ==
    /\ RunIdle
    /\ rng = 0 /\ sampleLog = <<>> /\ ew = EwIdle
    /\ \E h \in HeaderDicts, m \in {"GET", "POST"} :
         sr = SrEnter(m, <<"http://a", "/">>, h, <<>>)

\* requests.request(...) raises: the except clause runs
SendRaise ==
    /\ SrCanAttempt(sr)
    /\ sr' = SrAttempt(sr, Raise)
    /\ UNCHANGED runVars

\* requests.request(...) returns a response: send_request returns
SendRespond ==
    /\ SrCanAttempt(sr)
    /\ \E r \in Responses : sr' = SrAttempt(sr, r)
    /\ UNCHANGED runVars

\* the while condition is false: return [0, False]
SendGiveUp ==
    /\ SrExhausted(sr)
    /\ sr' = SrGiveUp(sr)
    /\ UNCHANGED runVars

NextSend == SendRaise \/ SendRespond \/ SendGiveUp

SpecSend == InitSend /\ [][NextSend]_vars

-----------------------------------------------------------------------------
(* Process endings *)

\* sys.exit() without an argument: SystemExit(None), exit status 0
SysExitStatus == 0

\* an exception nobody catches: traceback, exit status 1
UncaughtStatus == 1

\* the control thread stops in sys.exit()
SysExit(why) ==
    /\ pc' = "exited"
    /\ fatal' = why
    /\ exitCode' = SysExitStatus

Swallowed(why) ==
    /\ pc' = "finished"
    /\ fatal' = why
    /\ exitCode' = exitCode

\* the control thread dies of an uncaught exception
Crash(why) ==
    /\ pc' = "crashed"
    /\ fatal' = why
    /\ exitCode' = UncaughtStatus

-----------------------------------------------------------------------------
(* Wafs.check_connection *)

HealthOkAnyResponse(r) == r.status # 0

\* health_ok = res_status_code == 200
HealthOk(r) == r.status = 200

\* functional_ok = is_blocked
FunctionalOk(r) == r.blocked

\* one iteration of the loop over self.wafs: the benign GET, the script-injection
\* GET, and the summary row
CheckWaf ==
    /\ pc = "check"
    /\ checkIdx < Len(wafs)
    /\ \E h \in ProbeReturns, f \in ProbeReturns :
         LET w == wafs[checkIdx + 1]
         IN /\ results' = Append(results,
                     [name |-> w.name, url |-> w.url,
                      health |-> HealthOk(h), functional |-> FunctionalOk(f)])
            /\ check_failed' = (check_failed \/ ~HealthOk(h) \/ ~FunctionalOk(f))
            /\ probes' = Append(probes, [health |-> h, functional |-> f])
    /\ checkIdx' = checkIdx + 1
    /\ UNCHANGED <<sr, wafs, max_workers, fast_mode, store, store0, pc, exitCode, fatal,
                   files, fileIdx, wafIdx, data, loaded, tasks, completed, failures,
                   dispatchLog, recordLog, dropCount, loadCount, report, corpus, rng,
                   sampleLog, ew>>

NeverAbort(failed) == FALSE

\* `if check_failed:` after the summary was printed
AbortOnFailure(failed) == failed

\* after the loop: print the summary, then exit if a check failed; otherwise
\* check_connection returns (what the probes returned is not kept) and main goes
\* on through check_engine_connection and prepare_data to send_payloads
CheckEnd ==
    /\ pc = "check"
    /\ checkIdx = Len(wafs)
    /\ IF AbortOnFailure(check_failed)
       THEN SysExit("check") /\ UNCHANGED probes
       ELSE pc' = "send_payloads" /\ probes' = <<>> /\ UNCHANGED <<fatal, exitCode>>
    /\ UNCHANGED <<sr, wafs, max_workers, fast_mode, store, store0,
                   checkIdx, results, check_failed,
                   files, fileIdx, wafIdx, data, loaded, tasks, completed, failures,
                   dispatchLog, recordLog, dropCount, loadCount, report, corpus, rng,
                   sampleLog, ew>>

\* print_table reads table_lines[0]: with no WAF checked the summary may have no
\* line at all (tabulate's output for an empty list), and that read raises IndexError
CheckEndNoLines ==
    /\ pc = "check"
    /\ checkIdx = Len(wafs)
    /\ results = <<>>
    /\ Crash("IndexError")
    /\ UNCHANGED <<sr, wafs, max_workers, fast_mode, store, store0,
                   checkIdx, results, check_failed,
                   files, fileIdx, wafIdx, data, loaded, tasks, completed, failures,
                   dispatchLog, recordLog, dropCount, loadCount, probes, report,
                   corpus, rng, sampleLog, ew>>

-----------------------------------------------------------------------------
(* Wafs._sample_data *)

FastModePercent == 15

Max(a, b) == IF a >= b THEN a ELSE b

\* Python's round() of num/den: to the nearest integer, ties to the even one
RoundHalfEven(num, den) ==
    LET q == num \div den
        r == num % den
    IN IF 2 * r > den THEN q + 1
       ELSE IF 2 * r < den THEN q
       ELSE IF q % 2 = 0 THEN q ELSE q + 1

SampleSizeFloor(n) == Max(1, (FastModePercent * n) \div 100)

\* max(1, round(len(data) * FAST_MODE_SAMPLE_PERCENTAGE))
SampleSize(n) == Max(1, RoundHalfEven(FastModePercent * n, 100))

\* random.seed(42); random.shuffle(x): position i of the result holds the element
\* that was at ShufflePerm(n)[i] (CPython's generator, lists of up to 5 elements)
ShufflePerm(n) ==
    CASE n = 0 -> <<>>
      [] n = 1 -> <<1>>
      [] n = 2 -> <<2, 1>>
      [] n = 3 -> <<2, 1, 3>>
      [] n = 4 -> <<3, 2, 4, 1>>
      [] n = 5 -> <<4, 2, 3, 5, 1>>

Shuffle(d) == [i \in 1..Len(d) |-> d[ShufflePerm(Len(d))[i]]]

\* data_copy[:sample_size]
SampleData(d) ==
    LET c == Shuffle(d)
        k == SampleSize(Len(d))
    IN SubSeq(c, 1, IF k <= Len(c) THEN k ELSE Len(c))

\* the generator's first outputs after random.seed(42), each 32-bit output cut
\* to its 8 most significant bits (getrandbits(k) keeps the k most significant)
Stream42 ==
    <<163, 28, 6, 189, 70, 62, 57, 35, 188, 26, 173, 189, 228, 139, 22, 151,
      108, 8, 7, 23, 55, 59, 129, 154, 6, 143, 50, 183, 166, 179, 139, 107,
      56, 114, 150, 71, 207, 222, 1, 194, 206, 40, 178, 108, 87, 71, 39, 55,
      245, 195, 86, 26, 23, 97, 24, 91, 216, 88, 154, 67, 206, 11, 186, 117,
      137, 31, 249, 236, 96, 20, 141, 75, 212, 160, 158, 226, 220, 92, 147, 49,
      180, 17, 11, 169, 58, 197, 74, 252, 20, 218, 59, 221, 25, 97, 71, 116,
      162, 213, 93, 41, 94, 90, 53, 171, 68, 179, 239, 174, 165, 18, 155, 162,
      43, 136, 186, 62, 41, 118, 97, 69, 253, 236, 163, 176, 142, 56, 175, 83,
      215, 196, 198, 14, 58, 210, 8, 206, 80, 102, 68, 16, 54, 233, 241, 145,
      224, 183, 80, 54, 167, 127, 101, 226, 234, 164, 117, 36, 67, 35, 63, 190>>

\* bounds of specification SpecSample: the longest input list, how many calls
\* are followed, and how far the generator may have advanced before the first
MaxList == 10
MaxCalls == 3
MaxDrift == 2

SeedNoop(pos) == pos

\* random.seed(FAST_MODE_SEED): the generator restarts at the head of its stream
Seed(pos) == 0

RECURSIVE BitLength(_)
BitLength(n) == IF n = 0 THEN 0 ELSE 1 + BitLength(n \div 2)

\* getrandbits(k), k <= 8: the next output's k most significant bits
GetRandBits(pos, k) == Stream42[pos + 1] \div (2 ^ (8 - k))

\* Random._randbelow(n): getrandbits(n.bit_length()) is drawn again until it is
\* below n
RECURSIVE RandBelow(_, _)
RandBelow(pos, n) ==
    LET r == GetRandBits(pos, BitLength(n))
    IN IF r < n THEN [r |-> r, pos |-> pos + 1] ELSE RandBelow(pos + 1, n)

\* random.shuffle(x) from 0-based index i down to 1: x[i], x[j] = x[j], x[i]
\* with j = randbelow(i + 1)
RECURSIVE ShuffleFrom(_, _, _)
ShuffleFrom(pos, x, i) ==
    IF i < 1 THEN [x |-> x, pos |-> pos]
    ELSE LET d == RandBelow(pos, i + 1)
         IN ShuffleFrom(d.pos, [x EXCEPT ![i + 1] = x[d.r + 1], ![d.r + 1] = x[i + 1]],
                        i - 1)

RandomShuffle(pos, x) == ShuffleFrom(pos, x, Len(x) - 1)

\* a call _sample_data(d) with the generator at pos: what it returns, the
\* caller's list after the call, and the generator after the call
SampleDataCall(pos, d) ==
    LET sample_size == SampleSize(Len(d))
        data_copy == RandomShuffle(Seed(pos), d)
    IN [out |-> SubSeq(data_copy.x, 1,
                       IF sample_size <= Len(d) THEN sample_size ELSE Len(d)),
        data |-> d, rng |-> data_copy.pos]

-----------------------------------------------------------------------------
(* Wafs.send_payloads *)

WafsEmptyNever(w) == FALSE

\* `not self.wafs.values()`
WafsEmpty(w) == Len(w) = 0

DropTableNoop(st) == st

\* drop_table_if_exists: DROP TABLE when is_table_exists
DropTable(st) == IF st.exists THEN [exists |-> FALSE, rows |-> <<>>] ELSE st

\* the entry of send_payloads: the empty-config exit, else the drop and the
\* enumeration of the test-case files
SendPayloadsBegin ==
    /\ pc = "send_payloads"
    /\ IF WafsEmpty(wafs)
       THEN /\ SysExit("empty_config")
            /\ UNCHANGED <<store, dropCount, files, fileIdx>>
       ELSE /\ store' = DropTable(store)
            /\ dropCount' = dropCount + 1
            /\ \E fl \in Enumerations :
                 /\ files' = fl
                 /\ fileIdx' = IF fl = <<>> THEN 0 ELSE 1
                 /\ pc' = IF fl = <<>> THEN "finished" ELSE "load"
            /\ UNCHANGED <<fatal, exitCode>>
    /\ UNCHANGED <<sr, wafs, max_workers, fast_mode, store0, checkIdx, results, check_failed,
                   wafIdx, data, loaded, tasks, completed, failures,
                   dispatchLog, recordLog, loadCount, probes, report,
                   corpus, rng, sampleLog, ew>>

\* the top of the outer loop: load_json_file(test_name), which exits when the file
\* cannot be read or parsed, then the sampling of fast mode; the inner loop runs
\* once per value of self.wafs
LoadFile ==
    /\ pc = "load"
    /\ loadCount' = loadCount + 1
    /\ \E c \in FileContents(fileIdx) :
         IF c.ok
         THEN /\ loaded' = c.payloads
              /\ corpus' = Append(corpus, [file |-> files[fileIdx], n |-> Len(c.payloads)])
              /\ data' = IF fast_mode THEN SampleDataCall(rng, c.payloads).out
                         ELSE c.payloads
              /\ rng' = IF fast_mode THEN SampleDataCall(rng, c.payloads).rng ELSE rng
              /\ IF Len(wafs) > 0
                 THEN pc' = "dispatch" /\ wafIdx' = 1 /\ fileIdx' = fileIdx
                 ELSE /\ wafIdx' = 0
                      /\ fileIdx' = IF fileIdx < Len(files) THEN fileIdx + 1 ELSE fileIdx
                      /\ pc' = IF fileIdx < Len(files) THEN "load" ELSE "finished"
              /\ UNCHANGED <<fatal, exitCode>>
         ELSE /\ SysExit("fixture")
              /\ UNCHANGED <<loaded, data, wafIdx, fileIdx, corpus, rng>>
    /\ tasks' = <<>>
    /\ completed' = <<>>
    /\ UNCHANGED <<sr, wafs, max_workers, fast_mode, store, store0, checkIdx, results,
                   check_failed, files, failures, dispatchLog, recordLog, dropCount,
                   probes, report, sampleLog, ew>>

-----------------------------------------------------------------------------
(* Wafs._send_payloads: the thread pool *)

\* `req` before the call was entered
NoRequest == [method |-> "", url |-> <<>>, headers |-> <<>>, data |-> <<>>]

\* a future: where its call is, the call's locals while it runs, the request it
\* transmits and, once done, what it returned
Queued == [st |-> "queued", sr |-> SrIdle, req |-> NoRequest, ret |-> ZeroResult]

Running(i) == tasks[i].st = "running"
AllStarted == \A i \in 1..Len(tasks) : tasks[i].st # "queued"

\* leaving the `with` block and list(executor.map(...)): every future has a result
AllDone == \A i \in 1..Len(tasks) : tasks[i].st = "done"
InFlight == Cardinality({i \in 1..Len(tasks) : Running(i)})

UnboundedPool(running, size) == TRUE

\* ThreadPoolExecutor(max_workers=self.max_workers): a queued item is taken only
\* by one of the pool's max_workers threads that is not running a call
WorkerFree(running, size) == running < size

\* the call _send_payloads(data, url, test_name): the pool is created and
\* executor.map submits one send_request per payload, in list order
\* every WAF's batch takes its payloads from the head of the file's full list
FirstOfFilePerWaf(sampled, all, wi) ==
    IF wi = 1 THEN sampled ELSE SubSeq(all, 1, Len(sampled))

\* self._send_payloads(data, url, test_name) in the loop over the WAFs: `data` is
\* the list bound before the loop (sampled there when fast mode is on), the same
\* object for every WAF
PayloadsOfBatch(sampled, all, wi) == sampled

BatchBegin ==
    /\ pc = "dispatch"
    /\ data' = PayloadsOfBatch(data, loaded, wafIdx)
    /\ dispatchLog' = Append(dispatchLog,
                             [file |-> files[fileIdx], url |-> wafs[wafIdx].url])
    /\ tasks' = [i \in 1..Len(data) |-> Queued]
    /\ completed' = <<>>
    /\ pc' = "pool"
    /\ UNCHANGED <<sr, wafs, max_workers, fast_mode, store, store0, exitCode, fatal,
                   checkIdx, results, check_failed, files, fileIdx, wafIdx, loaded,
                   failures, recordLog, dropCount, loadCount, probes, report,
                   corpus, rng, sampleLog, ew>>

\* a free worker takes the oldest queued item and enters send_request, whose header
\* loop pops the Host keys from the payload's own headers dict
StartTask(i) ==
    /\ pc = "pool"
    /\ tasks[i].st = "queued"
    /\ \A j \in 1..(i - 1) : tasks[j].st # "queued"
    /\ WorkerFree(InFlight, max_workers)
    /\ LET p == data[i]
           s == SrEnter(p.method, wafs[wafIdx].url \o p.url, p.headers, p.data)
       IN /\ tasks' = [tasks EXCEPT ![i] = [st |-> "running", sr |-> s, req |-> s.req,
                                            ret |-> ZeroResult]]
          /\ data' = [data EXCEPT ![i].headers = s.req.headers]
    /\ UNCHANGED <<sr, wafs, max_workers, fast_mode, store, store0, pc, exitCode, fatal,
                   checkIdx, results, check_failed, files, fileIdx, wafIdx, loaded,
                   completed, failures, dispatchLog, recordLog, dropCount, loadCount, probes, report,
                   corpus, rng, sampleLog, ew>>

\* the future of a send_request call that returned
Done(s) == [st |-> "done", sr |-> SrIdle, req |-> s.req, ret |-> s.ret]

\* a worker's requests.request raises: the except clause of its send_request
TaskRaise(i) ==
    /\ pc = "pool"
    /\ Running(i)
    /\ SrCanAttempt(tasks[i].sr)
    /\ failures < MaxFailures
    /\ failures' = failures + 1
    /\ tasks' = [tasks EXCEPT ![i].sr = SrAttempt(tasks[i].sr, Raise)]
    /\ UNCHANGED <<sr, wafs, max_workers, fast_mode, store, store0, pc, exitCode, fatal,
                   checkIdx, results, check_failed, files, fileIdx, wafIdx, data, loaded,
                   completed, dispatchLog, recordLog, dropCount, loadCount, probes, report,
                   corpus, rng, sampleLog, ew>>

\* a worker's requests.request returns the WAF's response: its send_request returns
TaskRespond(i) ==
    /\ pc = "pool"
    /\ Running(i)
    /\ SrCanAttempt(tasks[i].sr)
    /\ tasks' = [tasks EXCEPT
                   ![i] = Done(SrAttempt(tasks[i].sr, WafResponse(tasks[i].sr.req)))]
    /\ completed' = Append(completed, i)
    /\ UNCHANGED <<sr, wafs, max_workers, fast_mode, store, store0, pc, exitCode, fatal,
                   checkIdx, results, check_failed, files, fileIdx, wafIdx, data, loaded,
                   failures, dispatchLog, recordLog, dropCount, loadCount, probes, report,
                   corpus, rng, sampleLog, ew>>

\* a worker's send_request leaves the loop after the last failed attempt
TaskGiveUp(i) ==
    /\ pc = "pool"
    /\ Running(i)
    /\ SrExhausted(tasks[i].sr)
    /\ tasks' = [tasks EXCEPT ![i] = Done(SrGiveUp(tasks[i].sr))]
    /\ completed' = Append(completed, i)
    /\ UNCHANGED <<sr, wafs, max_workers, fast_mode, store, store0, pc, exitCode, fatal,
                   checkIdx, results, check_failed, files, fileIdx, wafIdx, data, loaded,
                   failures, dispatchLog, recordLog, dropCount, loadCount, probes, report,
                   corpus, rng, sampleLog, ew>>

-----------------------------------------------------------------------------
(* Wafs._send_payloads: the rows and the append *)

ResultsAsCompleted(t, order) == [k \in 1..Len(t) |-> t[order[k]].ret]

\* list(executor.map(...)): the results in the order of the submitted payloads,
\* whatever the order in which the calls completed
MapResults(t, order) == [i \in 1..Len(t) |-> t[i].ret]

\* json.dumps of a str -> str dict
RECURSIVE JsonItems(_)
JsonItems(h) ==
    IF h = <<>> THEN <<>>
    ELSE <<Head(h).k, ":", Head(h).v>>
         \o (IF Tail(h) = <<>> THEN <<>> ELSE <<",">> \o JsonItems(Tail(h)))

JsonDumps(h) == <<"{">> \o JsonItems(h) \o <<"}">>

\* self.inverse_waf_dict[url] with inverse_waf_dict = {v: k for k, v in wafs.items()}:
\* a later item with the same URL replaces an earlier one
RECURSIVE WafNameByUrl(_, _)
WafNameByUrl(w, url) ==
    IF w[Len(w)].url = url THEN w[Len(w)].name
    ELSE WafNameByUrl(SubSeq(w, 1, Len(w) - 1), url)

CategoryNoFallback(testName, dataSetType) == CategoryTable(testName)

\* the Category column: the table's value, and TestName for an unmapped row whose
\* DataSetType is "Malicious"
Category(testName, dataSetType) ==
    LET mapped == CategoryTable(testName)
    IN IF dataSetType = "Malicious" /\ mapped = Null THEN testName ELSE mapped

\* row i of the DataFrame (machineName and DateTime are left out)
Row(p, i, r, url, w, file) ==
    [method               |-> p.method,
     url                  |-> ReplaceNul(p.url),
     headers              |-> JsonDumps(p.headers),
     data                 |-> ReplaceNul(p.data),
     DestinationURL       |-> url,
     WAF_Name             |-> WafNameByUrl(w, url),
     TestName             |-> file.stem,
     DataSetType          |-> file.parent,
     response_status_code |-> r.status,
     isBlocked            |-> r.blocked,
     TestId               |-> i,
     Category             |-> Category(file.stem, file.parent)]

BatchRowsFromZero(d, res, url, w, file) ==
    [i \in 1..Len(d) |-> Row(d[i], i - 1, res[i], url, w, file)]

\* the DataFrame of a batch: row i from payload i and result i, TestId from
\* range(1, len(dff) + 1)
BatchRows(d, res, url, w, file) == [i \in 1..Len(d) |-> Row(d[i], i, res[i], url, w, file)]

\* to_sql(..., if_exists='append')
AppendRows(st, rows) == [exists |-> TRUE, rows |-> st.rows \o rows]

SkipLastWaf(fi, wi, nFiles, nWafs) ==
    IF wi + 1 < nWafs THEN [pc |-> "dispatch", fileIdx |-> fi, wafIdx |-> wi + 1]
    ELSE IF fi < nFiles THEN [pc |-> "load", fileIdx |-> fi + 1, wafIdx |-> wi]
    ELSE [pc |-> "finished", fileIdx |-> fi, wafIdx |-> wi]

\* the two for loops of send_payloads after a batch: the next WAF, else the next
\* file, else the end
NextPair(fi, wi, nFiles, nWafs) ==
    IF wi < nWafs THEN [pc |-> "dispatch", fileIdx |-> fi, wafIdx |-> wi + 1]
    ELSE IF fi < nFiles THEN [pc |-> "load", fileIdx |-> fi + 1, wafIdx |-> wi]
    ELSE [pc |-> "finished", fileIdx |-> fi, wafIdx |-> wi]

\* after the pool's barrier: the DataFrame is built from the payload list and the
\* results and appended; an empty payload list has no 'headers' column (KeyError)
\* and a rejected write raises out of to_sql
Record ==
    /\ pc = "pool"
    /\ AllDone
    /\ IF data = <<>>
       THEN /\ Crash("KeyError")
            /\ UNCHANGED <<store, recordLog, fileIdx, wafIdx>>
       ELSE \E written \in BOOLEAN :
              IF written
              THEN LET url == wafs[wafIdx].url
                       res == MapResults(tasks, completed)
                       nxt == NextPair(fileIdx, wafIdx, Len(files), Len(wafs))
                   IN /\ store' = AppendRows(store,
                                     BatchRows(data, res, url, wafs, files[fileIdx]))
                      /\ recordLog' = Append(recordLog,
                                        [file |-> files[fileIdx], url |-> url,
                                         name |-> WafNameByUrl(wafs, url)])
                      /\ pc' = nxt.pc
                      /\ fileIdx' = nxt.fileIdx
                      /\ wafIdx' = nxt.wafIdx
                      /\ UNCHANGED <<fatal, exitCode>>
              ELSE /\ Crash("persistence")
                   /\ UNCHANGED <<store, recordLog, fileIdx, wafIdx>>
    /\ UNCHANGED <<sr, wafs, max_workers, fast_mode, store0, checkIdx, results, check_failed,
                   files, data, loaded, tasks, completed, failures,
                   dispatchLog, dropCount, loadCount, probes, report,
                   corpus, rng, sampleLog, ew>>

\* send_payloads returns; main runs the analyzer and the process ends normally
Finish ==
    /\ pc = "finished"
    /\ pc' = "done"
    /\ exitCode' = 0
    /\ UNCHANGED <<sr, wafs, max_workers, fast_mode, store, store0, fatal,
                   checkIdx, results, check_failed, files, fileIdx, wafIdx, data, loaded,
                   tasks, completed, failures, dispatchLog, recordLog, dropCount, loadCount, probes, report,
                   corpus, rng, sampleLog, ew>>

-----------------------------------------------------------------------------
(* Specification Spec: a run of main.  Specification SpecSendPayloads: a call of *)
(* Wafs.send_payloads on its own.                                               *)

InitWafs ==
    /\ sr = SrIdle
    /\ wafs \in WafConfigs
    /\ max_workers \in 1..MaxWorkers
    /\ fast_mode \in BOOLEAN
    /\ store \in Stores
    /\ store0 = store
    /\ exitCode = -1 /\ fatal = "none"
    /\ checkIdx = 0 /\ results = <<>> /\ check_failed = FALSE
    /\ files = <<>> /\ fileIdx = 0 /\ wafIdx = 0 /\ data = <<>> /\ loaded = <<>>
    /\ tasks = <<>> /\ completed = <<>> /\ failures = 0
    /\ dispatchLog = <<>> /\ recordLog = <<>> /\ dropCount = 0 /\ loadCount = 0
    /\ probes = <<>> /\ report = NoReport
    /\ corpus = <<>> /\ rng = 0 /\ sampleLog = <<>> /\ ew = EwIdle

Init == InitWafs /\ pc = "check"

InitSendPayloads == InitWafs /\ pc = "send_payloads"

NextSendPayloads ==
    \/ SendPayloadsBegin
    \/ LoadFile
    \/ BatchBegin
    \/ \E i \in 1..Len(tasks) : StartTask(i)
    \/ \E i \in 1..Len(tasks) : TaskRaise(i)
    \/ \E i \in 1..Len(tasks) : TaskRespond(i)
    \/ \E i \in 1..Len(tasks) : TaskGiveUp(i)
    \/ Record
    \/ Finish

Next ==
    \/ CheckWaf
    \/ CheckEnd
    \/ CheckEndNoLines
    \/ NextSendPayloads

Spec == Init /\ [][Next]_vars

SpecSendPayloads == InitSendPayloads /\ [][NextSendPayloads]_vars

\* the steps of the main thread: check_connection, the loops of send_payloads and
\* what _send_payloads does outside its pool
MainThread ==
    \/ CheckWaf
    \/ CheckEnd
    \/ CheckEndNoLines
    \/ SendPayloadsBegin
    \/ LoadFile
    \/ BatchBegin
    \/ Record
    \/ Finish

\* the steps of the pool's call for payload i: a worker thread takes it, its
\* requests.request raises or returns (the request carries a timeout), the call
\* leaves its loop
PoolCall(i) ==
    /\ i \in 1..Len(tasks)
    /\ (StartTask(i) \/ TaskRaise(i) \/ TaskRespond(i) \/ TaskGiveUp(i))

\* Specification SpecFair: a run of main in which the main thread and every call
\* submitted to the pool keep being scheduled: a thread that can take a step
\* eventually takes one
SpecFair ==
    /\ Init
    /\ [][Next]_vars
    /\ WF_vars(MainThread)
    /\ \A i \in 1..MaxPayloads : WF_vars(PoolCall(i))

-----------------------------------------------------------------------------
(* Specification SpecSharedUrl: send_payloads on a Wafs object built from a     *)
(* config file in which two names have the same URL                             *)

WafC == [name |-> "C", url |-> WafA.url]

\* what load_wafs_config can return beyond the validated configurations: any
\* JSON object of the file, here two names with one URL
SharedUrlConfigs == {<<WafA, WafC>>}

\* Wafs.__init__ on such a file: the dict is taken as it is
InitSharedUrl ==
    /\ sr = SrIdle
    /\ wafs \in SharedUrlConfigs
    /\ max_workers \in 1..MaxWorkers
    /\ fast_mode \in BOOLEAN
    /\ store \in Stores
    /\ store0 = store
    /\ pc = "send_payloads"
    /\ exitCode = -1 /\ fatal = "none"
    /\ checkIdx = 0 /\ results = <<>> /\ check_failed = FALSE
    /\ files = <<>> /\ fileIdx = 0 /\ wafIdx = 0 /\ data = <<>> /\ loaded = <<>>
    /\ tasks = <<>> /\ completed = <<>> /\ failures = 0
    /\ dispatchLog = <<>> /\ recordLog = <<>> /\ dropCount = 0 /\ loadCount = 0
    /\ probes = <<>> /\ report = NoReport
    /\ corpus = <<>> /\ rng = 0 /\ sampleLog = <<>> /\ ew = EwIdle

SpecSharedUrl == InitSharedUrl /\ [][NextSendPayloads]_vars

-----------------------------------------------------------------------------
(* Specification SpecReport: the aggregate queries of report/data_loader.py on  *)
(* a results table.  A rate is kept as its numerator and its denominator, the   *)
(* SQL expression being numerator / denominator * 100.                          *)

\* how many rows the table under report has at most
MaxRows == 2

\* what send_request can have put into response_status_code and isBlocked
Outcomes == {[status |-> 0, blocked |-> FALSE],
             [status |-> 200, blocked |-> FALSE],
             [status |-> 403, blocked |-> TRUE]}

\* the columns of a row that the queries read
ReportRows ==
    {[WAF_Name |-> w, DataSetType |-> t, Category |-> c,
      response_status_code |-> o.status, isBlocked |-> o.blocked] :
        w \in {"A", "B"}, t \in {"Malicious", "Legitimate"}, c \in {"xss", "lfi"},
        o \in Outcomes}

ReportTables == UNION {[1..n -> ReportRows] : n \in 0..MaxRows}

InitReport ==
    /\ sr = SrIdle
    /\ wafs = <<>> /\ max_workers = 1 /\ fast_mode = FALSE
    /\ \E t \in ReportTables : store = [exists |-> TRUE, rows |-> t]
    /\ store0 = store
    /\ pc = "report" /\ exitCode = -1 /\ fatal = "none"
    /\ checkIdx = 0 /\ results = <<>> /\ check_failed = FALSE
    /\ files = <<>> /\ fileIdx = 0 /\ wafIdx = 0 /\ data = <<>> /\ loaded = <<>>
    /\ tasks = <<>> /\ completed = <<>> /\ failures = 0
    /\ dispatchLog = <<>> /\ recordLog = <<>> /\ dropCount = 0 /\ loadCount = 0
    /\ probes = <<>> /\ report = NoReport
    /\ corpus = <<>> /\ rng = 0 /\ sampleLog = <<>> /\ ew = EwIdle

\* SUM(CASE WHEN "isBlocked" = b THEN 1 ELSE 0 END) and COUNT(*) over a group
Rate(rows, group, b) ==
    [num |-> Cardinality({i \in group : rows[i].isBlocked = b}),
     den |-> Cardinality(group)]

\* ... WHERE response_status_code != 0 AND "DataSetType" = t GROUP BY "WAF_Name":
\* the positions of the rows in the group of WAF w
AnsweredGroup(rows, t, w) ==
    {i \in 1..Len(rows) : /\ rows[i].response_status_code # 0
                           /\ rows[i].DataSetType = t
                           /\ rows[i].WAF_Name = w}

\* load_data: TPR JOIN TNR ON WAF_Name, one line per WAF that has both groups
LoadDataResult(rows) ==
    {[WAF_Name           |-> w,
      true_positive_rate |-> Rate(rows, AnsweredGroup(rows, "Malicious", w), TRUE),
      true_negative_rate |-> Rate(rows, AnsweredGroup(rows, "Legitimate", w), FALSE)] :
        w \in {v \in {rows[i].WAF_Name : i \in 1..Len(rows)} :
                 /\ AnsweredGroup(rows, "Malicious", v) # {}
                 /\ AnsweredGroup(rows, "Legitimate", v) # {}}}

\* ... WHERE "DataSetType" = t AND "WAF_Name" = :waf_name GROUP BY "Category":
\* the positions of the rows in the group of category c
CategoryGroup(rows, t, w, c) ==
    {i \in 1..Len(rows) : /\ rows[i].DataSetType = t
                           /\ rows[i].WAF_Name = w
                           /\ rows[i].Category = c}

\* get_blocked_attack_coverage_data (t = "Malicious", b = TRUE) and
\* get_allowed_legitimate_coverage_data (t = "Legitimate", b = FALSE): one line
\* per category that has rows
CoverageResult(rows, t, w, b) ==
    {[Category |-> c, rate |-> Rate(rows, CategoryGroup(rows, t, w, c), b)] :
        c \in {d \in {rows[i].Category : i \in 1..Len(rows)} :
                 CategoryGroup(rows, t, w, d) # {}}}

LoadData ==
    /\ report' = [query |-> "load_data", lines |-> LoadDataResult(store.rows)]
    /\ UNCHANGED <<sr, wafs, max_workers, fast_mode, store, store0, pc, exitCode, fatal,
                   checkIdx, results, check_failed, files, fileIdx, wafIdx, data, loaded,
                   tasks, completed, failures, dispatchLog, recordLog, dropCount,
                   loadCount, probes, corpus, rng, sampleLog, ew>>

BlockedAttackCoverage(w) ==
    /\ report' = [query |-> "blocked_attack_coverage", waf_name |-> w,
                  lines |-> CoverageResult(store.rows, "Malicious", w, TRUE)]
    /\ UNCHANGED <<sr, wafs, max_workers, fast_mode, store, store0, pc, exitCode, fatal,
                   checkIdx, results, check_failed, files, fileIdx, wafIdx, data, loaded,
                   tasks, completed, failures, dispatchLog, recordLog, dropCount,
                   loadCount, probes, corpus, rng, sampleLog, ew>>

AllowedLegitimateCoverage(w) ==
    /\ report' = [query |-> "allowed_legitimate_coverage", waf_name |-> w,
                  lines |-> CoverageResult(store.rows, "Legitimate", w, FALSE)]
    /\ UNCHANGED <<sr, wafs, max_workers, fast_mode, store, store0, pc, exitCode, fatal,
                   checkIdx, results, check_failed, files, fileIdx, wafIdx, data, loaded,
                   tasks, completed, failures, dispatchLog, recordLog, dropCount,
                   loadCount, probes, corpus, rng, sampleLog, ew>>

NextReport ==
    \/ LoadData
    \/ \E w \in {"A", "B"} : BlockedAttackCoverage(w)
    \/ \E w \in {"A", "B"} : AllowedLegitimateCoverage(w)

SpecReport == InitReport /\ [][NextReport]_vars

-----------------------------------------------------------------------------
(* Specification SpecSample: calls of Wafs._sample_data, one after the other, on *)
(* the generator the calls share                                                *)

\* the input lists: n elements, each named by its position
SampleInputs == {[i \in 1..n |-> i] : n \in 0..MaxList}

\* the generator is in whatever state earlier draws left it in
InitSample ==
    /\ RunIdle
    /\ sr = SrIdle /\ ew = EwIdle
    /\ rng \in 0..MaxDrift
    /\ sampleLog = <<>>

\* data = self._sample_data(data)
SampleCall ==
    /\ Len(sampleLog) < MaxCalls
    /\ \E d \in SampleInputs :
         LET c == SampleDataCall(rng, d)
         IN /\ rng' = c.rng
            /\ sampleLog' = Append(sampleLog, [in |-> d, out |-> c.out, after |-> c.data])
    /\ UNCHANGED <<sr, wafsVars, ew>>

NextSample == SampleCall

SpecSample == InitSample /\ [][NextSample]_vars

-----------------------------------------------------------------------------
(* Specification SpecWorkflow: entrypoint._execute_workflow.  A command-line     *)
(* string is a sequence of pieces: a blank, a scheme, a host or a name.          *)

\* how many --waf-name and --waf-url options a command line carries at most
MaxArgs == 2

NamePool == {<<>>, <<" ">>, <<"A">>, <<"B">>}

UrlPool == {<<>>, <<" ">>, <<"http://", "a">>, <<"https://", "b">>,
            <<" ", "HTTP://", "a">>, <<"ftp://", "a">>}

\* what argparse's action="append" yields: None (here <<>>) when the option is
\* absent, else the list of its values
ArgLists(pool) == UNION {[1..n -> pool] : n \in 0..MaxArgs}

\* str.strip()
RECURSIVE LStrip(_)
LStrip(s) == IF s # <<>> /\ Head(s) = " " THEN LStrip(Tail(s)) ELSE s

RECURSIVE RStrip(_)
RStrip(s) == IF s # <<>> /\ s[Len(s)] = " " THEN RStrip(SubSeq(s, 1, Len(s) - 1)) ELSE s

Strip(s) == RStrip(LStrip(s))

\* str.lower() on the pieces of a URL
LowerUrl(s) == [i \in 1..Len(s) |-> IF s[i] = "HTTP://" THEN "http://" ELSE s[i]]

\* `not s or not s.strip()`
Blank(s) == s = <<>> \/ Strip(s) = <<>>

\* url.strip().lower().startswith("http://") or ...startswith("https://")
UrlSchemeOk(url) ==
    \/ IsPrefix(<<"http://">>, LowerUrl(Strip(url)))
    \/ IsPrefix(<<"https://">>, LowerUrl(Strip(url)))

NeverDuplicates(s) == FALSE

\* len(s) != len(set(s))
HasDuplicates(s) == Len(s) # Cardinality({s[i] : i \in 1..Len(s)})

\* the first check of _validate_waf_config that ends the process, 0 when none does
FailedCheck(names, urls) ==
    IF names = <<>> /\ urls = <<>> THEN 1
    ELSE IF ~(names # <<>> /\ urls # <<>>) THEN 2
    ELSE IF Len(names) # Len(urls) THEN 3
    ELSE IF \E i \in 1..Len(names) : Blank(names[i]) THEN 4
    ELSE IF \E i \in 1..Len(urls) : Blank(urls[i]) \/ ~UrlSchemeOk(urls[i]) THEN 5
    ELSE IF HasDuplicates(names) THEN 6
    ELSE IF HasDuplicates(urls) THEN 7
    ELSE 0

\* d[k] = v on a dict kept as a sequence of items in insertion order
DictSet(d, k, v) ==
    IF \E i \in 1..Len(d) : d[i].name = k
    THEN [i \in 1..Len(d) |-> IF d[i].name = k THEN [name |-> k, url |-> v] ELSE d[i]]
    ELSE Append(d, [name |-> k, url |-> v])

\* dict(zip(names, urls))
RECURSIVE DictZip(_, _)
DictZip(names, urls) ==
    IF names = <<>> \/ urls = <<>> THEN <<>>
    ELSE DictSet(DictZip(SubSeq(names, 1, Len(names) - 1), SubSeq(urls, 1, Len(urls) - 1)),
                 names[Len(names)], urls[Len(urls)])

\* a process at the call of _execute_workflow(args)
InitWorkflow ==
    /\ RunIdle
    /\ sr = SrIdle /\ rng = 0 /\ sampleLog = <<>>
    /\ \E fr \in BOOLEAN, db \in BOOLEAN, cf \in BOOLEAN,
          mw \in 1..MaxWorkers, fm \in BOOLEAN,
          ns \in ArgLists(NamePool), us \in ArgLists(UrlPool) :
         ew = [pc            |-> "start",
               fresh_run     |-> fr,
               max_workers   |-> mw,
               fast          |-> fm,
               waf_name      |-> ns,
               waf_url       |-> us,
               db_exists     |-> db,
               config_exists |-> cf,
               is_fresh_run  |-> FALSE,
               unlinked      |-> {},
               failed_check  |-> 0,
               wafs_config   |-> <<>>,
               exit_status   |-> -1,
               runner_args   |-> <<>>,
               calls         |-> <<>>]

\* a run is fresh only when --fresh-run is given
FreshOnlyOnFlag(fresh_run, db_exists, config_exists) == fresh_run

\* is_fresh_run = args.fresh_run or not (db_exists and config_exists)
IsFreshRun(fresh_run, db_exists, config_exists) ==
    fresh_run \/ ~(db_exists /\ config_exists)

\* the two files are left where they are
KeepExistingData(e) == [e EXCEPT !.calls = Append(e.calls, "clean")]

\* _clean_existing_data: each of the two files is unlinked if it exists
CleanExistingData(e) ==
    [e EXCEPT !.unlinked = (IF e.db_exists THEN {"db"} ELSE {})
                           \cup (IF e.config_exists THEN {"config"} ELSE {}),
              !.db_exists = FALSE,
              !.config_exists = FALSE,
              !.calls = Append(e.calls, "clean")]

\* the head of _execute_workflow: is_fresh_run, and on a fresh run
\* _clean_existing_data
EwBegin ==
    /\ ew.pc = "start"
    /\ ew' = IF IsFreshRun(ew.fresh_run, ew.db_exists, ew.config_exists)
             THEN [CleanExistingData(ew) EXCEPT !.pc = "validate", !.is_fresh_run = TRUE]
             ELSE [ew EXCEPT !.pc = "analyze"]
    /\ UNCHANGED <<sr, wafsVars, rng, sampleLog>>

\* wafs_config = _validate_waf_config(args.waf_name, args.waf_url): sys.exit() at
\* the first failed check, else the dict
EwValidate ==
    /\ ew.pc = "validate"
    /\ LET failed == FailedCheck(ew.waf_name, ew.waf_url)
       IN ew' = IF failed # 0
                THEN [ew EXCEPT !.pc = "exited",
                                !.failed_check = failed,
                                !.exit_status = SysExitStatus,
                                !.calls = Append(ew.calls, "validate")]
                ELSE [ew EXCEPT !.pc = "runner",
                                !.wafs_config = DictZip(ew.waf_name, ew.waf_url),
                                !.calls = Append(ew.calls, "validate")]
    /\ UNCHANGED <<sr, wafsVars, rng, sampleLog>>

\* runner(wafs_config, max_workers=..., fast_mode=...)
EwRunner ==
    /\ ew.pc = "runner"
    /\ ew' = [ew EXCEPT !.pc = "done", !.calls = Append(ew.calls, "runner"),
                         !.runner_args = [wafs_config |-> ew.wafs_config,
                                          max_workers |-> ew.max_workers,
                                          fast_mode   |-> ew.fast]]
    /\ UNCHANGED <<sr, wafsVars, rng, sampleLog>>

\* analyzer()
EwAnalyzer ==
    /\ ew.pc = "analyze"
    /\ ew' = [ew EXCEPT !.pc = "done", !.calls = Append(ew.calls, "analyzer")]
    /\ UNCHANGED <<sr, wafsVars, rng, sampleLog>>

NextWorkflow == EwBegin \/ EwValidate \/ EwRunner \/ EwAnalyzer

SpecWorkflow == InitWorkflow /\ [][NextWorkflow]_vars

-----------------------------------------------------------------------------
(* Properties of send_request, checked under SpecSend *)

Last(q) == q[Len(q)]

AllRaise(log) == \A j \in 1..Len(log) : log[j] = "raise"

Returned == sr.pc = "returned"

\* the call returned from inside the try block
ReturnedResponse == Returned /\ sr.log # <<>> /\ Last(sr.log) = "response"

\* C2: send_request makes at most 3 transport attempts and never ends in an
\* exception: every attempt before the last one raised; when attempt k is the first
\* to obtain a response the call has returned that response's status after exactly k
\* attempts, and when 3 attempts raised it returns (0, False) after exactly 3.
C2_AtMostThreeAttempts ==
    /\ sr.pc \in {"loop", "returned"}
    /\ Len(sr.log) <= 3
    /\ sr.attempts <= 3
    /\ AllRaise(SubSeq(sr.log, 1, Len(sr.log) - 1))
    /\ (sr.log # <<>> /\ Last(sr.log) = "response")
         => /\ Returned
            /\ sr.ret.status = sr.res.status
            /\ sr.attempts = Len(sr.log) - 1
    /\ (Returned /\ ~ReturnedResponse)
         => /\ Len(sr.log) = 3
            /\ AllRaise(sr.log)
            /\ sr.ret = [status |-> 0, blocked |-> FALSE]

\* C2 witness: two attempts raised and the third obtained a response, which was returned
C2_Witness ==
    /\ Returned
    /\ sr.log = <<"raise", "raise", "response">>
    /\ sr.res.status = 200
    /\ sr.ret.status = 200

\* C3: when all 3 attempts fail, the waits are exactly 0.1 s after attempt 1 and
\* 0.2 s after attempt 2, and no wait follows the third failed attempt.
C3_WaitsOnlyBetweenAttempts ==
    (Returned /\ sr.log = <<"raise", "raise", "raise">>) => sr.waits = <<1, 2>>

\* the marker occurs somewhere in the body
HasMarker(body) ==
    \E i \in 1..Len(body) :
        /\ i + Len(Marker) - 1 <= Len(body)
        /\ SubSeq(body, i, i + Len(Marker) - 1) = Marker

\* C4: for every response send_request obtained, the returned status is the
\* response's status code, and blocked is true exactly when the status is 403 or the
\* body contains the rejection marker: (403, empty body) is blocked, (200, body with
\* the marker) is blocked, (200, unrelated body) is not.
C4_BlockedIffRejected ==
    ReturnedResponse =>
        /\ sr.ret.status = sr.res.status
        /\ sr.ret.blocked <=> (sr.res.status = 403 \/ HasMarker(sr.res.body))
        /\ (sr.res.status = 403 /\ sr.res.body = <<>>) => sr.ret.blocked
        /\ (sr.res.status = 200 /\ sr.res.body = <<"x", "x">>) => ~sr.ret.blocked

\* C4 witness: a 200 response whose body holds the marker after other text was
\* returned as blocked
C4_Witness ==
    /\ ReturnedResponse
    /\ sr.res.status = 200
    /\ sr.res.body = <<"x">> \o Marker
    /\ sr.ret = [status |-> 200, blocked |-> TRUE]

-----------------------------------------------------------------------------
(* Properties of a run, checked under Spec *)

\* the batch of the last _send_payloads call has been appended and its futures are
\* still at hand
BatchRecorded == tasks # <<>> /\ Len(recordLog) = Len(dispatchLog)

\* the rows of the table that the last append wrote
LastRows == SubSeq(store.rows, Len(store.rows) - Len(data) + 1, Len(store.rows))

\* C1: whatever the interleaving and completion order of the workers, the result
\* list of a batch has one entry per payload, entry i is what the request built from
\* payload i (destination URL + payload url) returned, and persisted row i combines
\* the fields of payload i with that entry.
C1_ResultsInPayloadOrder ==
    BatchRecorded =>
        LET dest == Last(recordLog).url
        IN /\ Len(tasks) = Len(data)
           /\ Len(store.rows) >= Len(data)
           /\ \A i \in 1..Len(data) :
                /\ tasks[i].st = "done"
                /\ tasks[i].req.url = dest \o data[i].url
                /\ tasks[i].req.method = data[i].method
                /\ tasks[i].req.data = data[i].data
                /\ tasks[i].ret \in {[status |-> 0, blocked |-> FALSE],
                                     Classify(WafResponse(tasks[i].req))}
                /\ LastRows[i].response_status_code = tasks[i].ret.status
                /\ LastRows[i].isBlocked = tasks[i].ret.blocked
                /\ LastRows[i].method = data[i].method
                /\ LastRows[i].TestId = i
                /\ LastRows[i].DestinationURL = dest

\* C1 witness: a recorded batch of two payloads whose second request completed first
\* and returned something else than the first
C1_Witness ==
    /\ BatchRecorded
    /\ Len(data) = 2
    /\ completed = <<2, 1>>
    /\ tasks[1].ret # tasks[2].ret
    /\ max_workers = 2

\* the payload list as load_json_file (and the sampling) produced it
DataAsLoaded == IF fast_mode THEN SampleData(loaded) ELSE loaded

\* C5: sending does not change a payload: during and after a batch every payload's
\* method, url, headers and data are as loaded from the fixture file, and the
\* headers persisted for it are the JSON form of its headers as loaded.
C5_PayloadsUnchanged ==
    /\ pc \in {"dispatch", "pool"} => data = DataAsLoaded
    /\ BatchRecorded =>
         \A i \in 1..Len(data) : LastRows[i].headers = JsonDumps(DataAsLoaded[i].headers)

SomeCheckFailed ==
    \E i \in 1..Len(results) : ~results[i].health \/ ~results[i].functional

\* C6: once a WAF has failed the health or the functionality check, the run ends in
\* check_connection: no batch is dispatched to any WAF, no fixture is loaded, the
\* results table is not dropped and holds exactly what it held before the run.
C6_FailedCheckAborts ==
    SomeCheckFailed =>
        /\ pc \in {"check", "exited"}
        /\ pc = "exited" => fatal = "check"
        /\ dispatchLog = <<>>
        /\ recordLog = <<>>
        /\ loadCount = 0
        /\ dropCount = 0
        /\ store = store0

\* C6 witness: the first WAF passed both checks, the second failed the health check,
\* and the run ended with the old table in place
C6_Witness ==
    /\ pc = "exited"
    /\ fatal = "check"
    /\ Len(results) = 2
    /\ results[1].health /\ results[1].functional
    /\ ~results[2].health
    /\ store0.exists
    /\ store = store0

\* C7: every fatal termination (failed check, empty WAF configuration, unreadable
\* fixture) ends the process with a non-zero exit status.
C7_FatalExitNonZero == pc = "exited" => exitCode # 0

CountOf(q, x) == Cardinality({i \in 1..Len(q) : q[i] = x})

\* C8: when send_payloads has completed, every (test-case file, WAF) pair was
\* dispatched exactly once and recorded exactly once, and nothing else was.
C8_EveryPairOnce ==
    pc \in {"finished", "done"} =>
        /\ Len(dispatchLog) = Len(files) * Len(wafs)
        /\ Len(recordLog) = Len(files) * Len(wafs)
        /\ \A f \in 1..Len(files), w \in 1..Len(wafs) :
             /\ CountOf(dispatchLog, [file |-> files[f], url |-> wafs[w].url]) = 1
             /\ CountOf(recordLog, [file |-> files[f], url |-> wafs[w].url,
                                    name |-> wafs[w].name]) = 1

\* C8 witness: a completed run over two files and two WAFs
C8_Witness ==
    /\ pc = "done"
    /\ Len(files) = 2
    /\ Len(wafs) = 2
    /\ Len(recordLog) = 4

\* C9: when load_json_file fails, for the first or a later test case, the results
\* table has not been dropped and holds no row of this run.
C9_FixtureFailureLeavesStore ==
    fatal = "fixture" => (dropCount = 0 /\ store = store0)

-----------------------------------------------------------------------------
(* Properties of send_payloads called on its own, checked under SpecSendPayloads *)

\* C10: with an empty WAF mapping send_payloads ends the run before touching the
\* store: the table is neither dropped nor appended to, no fixture is loaded and no
\* request is sent.
C10_EmptyConfigTouchesNothing ==
    wafs = <<>> =>
        /\ pc \in {"send_payloads", "exited"}
        /\ pc = "exited" => fatal = "empty_config"
        /\ dropCount = 0
        /\ store = store0
        /\ loadCount = 0
        /\ files = <<>>
        /\ dispatchLog = <<>>
        /\ tasks = <<>>

\* C10 witness: send_payloads exited on the empty mapping with the old table in place
C10_Witness ==
    /\ wafs = <<>>
    /\ pc = "exited"
    /\ fatal = "empty_config"
    /\ store0.exists
    /\ store = store0

-----------------------------------------------------------------------------
(* Properties of the store across a run, checked under Spec *)

\* the rows of one recorded batch carry its file's names and its WAF's URL
RowOfBatch(row, b) ==
    /\ row.TestName = b.file.stem
    /\ row.DataSetType = b.file.parent
    /\ row.DestinationURL = b.url
    /\ row.WAF_Name = b.name

\* C11: within a run the results table is dropped at most once, the drop has
\* happened when the first batch is appended and none follows an append; when
\* send_payloads has completed, the table holds no row of an earlier run, only
\* rows of the batches this run recorded.
C11_DroppedOnceBeforeAppends ==
    /\ dropCount <= 1
    /\ recordLog # <<>> => dropCount = 1
    /\ pc \in {"finished", "done"} =>
         /\ dropCount = 1
         /\ \A i \in 1..Len(store.rows) :
              /\ \A j \in 1..Len(store0.rows) : store.rows[i] # store0.rows[j]
              /\ \E k \in 1..Len(recordLog) : RowOfBatch(store.rows[i], recordLog[k])

\* C11 witness: a completed run that found a table with a row of an earlier run
\* and appended two batches of its own
C11_Witness ==
    /\ pc = "done"
    /\ store0.exists
    /\ store0.rows # <<>>
    /\ dropCount = 1
    /\ Len(recordLog) = 2
    /\ store.rows # <<>>

RECURSIVE PayloadCount(_, _)
\* the number of payloads in the loaded files enumerated from directory `root`
PayloadCount(c, root) ==
    IF c = <<>> THEN 0
    ELSE (IF Head(c).file.root = root THEN Head(c).n ELSE 0) + PayloadCount(Tail(c), root)

RowsOf(name, types) ==
    Cardinality({i \in 1..Len(store.rows) :
                   store.rows[i].WAF_Name = name /\ store.rows[i].DataSetType \in types})

\* C12: after a completed run without fast mode the table holds, for every
\* configured WAF, one row per payload of every test case: as many rows with
\* DataSetType "Legitimate" (resp. "Malicious") as the legitimate (resp.
\* malicious) corpus has payloads, |WAFs| times the corpus in total, and every
\* row of a WAF that answered every request with 403 has isBlocked set.
C12_RowCounts ==
    (pc \in {"finished", "done"} /\ ~fast_mode) =>
        /\ Len(store.rows) =
             Len(wafs) * (PayloadCount(corpus, "Malicious") + PayloadCount(corpus, "Legitimate"))
        /\ \A w \in 1..Len(wafs) :
             /\ RowsOf(wafs[w].name, {"Legitimate"}) = PayloadCount(corpus, "Legitimate")
             /\ RowsOf(wafs[w].name, {"Malicious"}) = PayloadCount(corpus, "Malicious")
        /\ failures = 0 =>
             \A i \in 1..Len(store.rows) :
                store.rows[i].WAF_Name = WafA.name => store.rows[i].isBlocked

\* C13: the rows one _send_payloads call appends carry the TestIds 1..N in payload
\* order, N being the size of the batch: row i has TestId i, no value is missing or
\* repeated, and the numbering starts again at 1 whatever the table already holds.
C13_TestIdPerBatch ==
    BatchRecorded =>
        /\ Len(LastRows) = Len(data)
        /\ \A i \in 1..Len(LastRows) : LastRows[i].TestId = i
        /\ {LastRows[i].TestId : i \in 1..Len(LastRows)} = 1..Len(data)
        /\ \A i, j \in 1..Len(LastRows) : i # j => LastRows[i].TestId # LastRows[j].TestId

\* C13 witness: a second batch of two payloads was appended after a first one, and
\* the table's TestIds read 1, 2, 1, 2
C13_Witness ==
    /\ BatchRecorded
    /\ Len(recordLog) = 2
    /\ Len(data) = 2
    /\ Len(store.rows) = 4
    /\ [i \in 1..4 |-> store.rows[i].TestId] = <<1, 2, 1, 2>>

\* C14: when the append of a batch fails, the exception leaves _send_payloads and
\* send_payloads: the run dies of it instead of finishing, the failed batch is the
\* last one dispatched, it is not recorded, and the table holds exactly the rows of
\* the batches recorded before it.
C14_PersistenceFailureAborts ==
    fatal = "persistence" =>
        /\ pc = "crashed"
        /\ exitCode = UncaughtStatus
        /\ Len(dispatchLog) = Len(recordLog) + 1
        /\ Last(dispatchLog) = [file |-> files[fileIdx], url |-> wafs[wafIdx].url]
        /\ \A k \in 1..Len(recordLog) :
             [file |-> recordLog[k].file, url |-> recordLog[k].url] = dispatchLog[k]
        /\ \A i \in 1..Len(store.rows) :
             \E k \in 1..Len(recordLog) : RowOfBatch(store.rows[i], recordLog[k])

\* C14 witness: the first batch was appended, the append of the second failed and
\* pairs were still to come
C14_Witness ==
    /\ fatal = "persistence"
    /\ pc = "crashed"
    /\ Len(recordLog) = 1
    /\ Len(dispatchLog) = 2
    /\ Len(files) * Len(wafs) > 2

\* C15: every row this run persisted has the category table's value for its
\* TestName as Category when the table has an entry; without an entry, Category
\* is the TestName itself on a "Malicious" row and null on a "Legitimate" row.
C15_CategoryResolution ==
    dropCount = 1 =>
        \A i \in 1..Len(store.rows) :
            LET row == store.rows[i]
                entry == CategoryTable(row.TestName)
            IN /\ entry # Null => row.Category = entry
               /\ (entry = Null /\ row.DataSetType = "Malicious") =>
                      row.Category = row.TestName
               /\ (entry = Null /\ row.DataSetType = "Legitimate") =>
                      row.Category = Null

\* C15 witness: the unmapped malicious test case sqli_basic was persisted with
\* Category "sqli_basic", next to a mapped legitimate test case
C15_Witness ==
    /\ dropCount = 1
    /\ \E i \in 1..Len(store.rows) :
         /\ store.rows[i].TestName = "sqli_basic"
         /\ store.rows[i].DataSetType = "Malicious"
         /\ store.rows[i].Category = "sqli_basic"
    /\ \E i \in 1..Len(store.rows) :
         /\ store.rows[i].TestName = "xss"
         /\ store.rows[i].DataSetType = "Legitimate"
         /\ store.rows[i].Category = "Cross Site Scripting"

\* string `out` is string `in` with every NUL replaced by U+FFFD and every other
\* character kept
Sanitized(in, out) ==
    /\ Len(out) = Len(in)
    /\ \A k \in 1..Len(in) : out[k] = (IF in[k] = NUL THEN FFFD ELSE in[k])

HasNul(s) == \E k \in 1..Len(s) : s[k] = NUL

\* C16: no row of the table has a NUL in url or data; the url and data of every
\* row of a batch are the payload's with each NUL replaced by U+FFFD and nothing
\* else changed, and the request of that payload was sent with the payload's own
\* url and data, NUL included.
C16_NulSanitized ==
    /\ \A i \in 1..Len(store.rows) : ~HasNul(store.rows[i].url) /\ ~HasNul(store.rows[i].data)
    /\ BatchRecorded =>
         \A i \in 1..Len(data) :
            /\ Sanitized(data[i].url, LastRows[i].url)
            /\ Sanitized(data[i].data, LastRows[i].data)
            /\ tasks[i].req.url = Last(recordLog).url \o data[i].url
            /\ tasks[i].req.data = data[i].data

\* C16 witness: a recorded batch with a NUL in one payload's url and in another
\* payload's data; the requests carried the NULs, the rows carry U+FFFD
C16_Witness ==
    /\ BatchRecorded
    /\ Len(data) = 2
    /\ HasNul(data[1].url) /\ HasNul(tasks[1].req.url)
    /\ HasNul(data[2].data) /\ HasNul(tasks[2].req.data)
    /\ LastRows[1].url = <<"/", FFFD>>
    /\ LastRows[2].data = <<FFFD, "d">>

-----------------------------------------------------------------------------
(* The headers send_request hands to the transport, checked under SpecSend *)

\* the spellings of the header name Host among the names the fixtures use
HostSpellings == {"Host", "HOST", "hOsT", "host"}

NotHost(x) == x.k \notin HostSpellings

\* C17: in every attempt of a send_request call the headers passed to the
\* transport are the caller's headers without the items whose name is Host in
\* any letter case; every other item is passed on, name and value unchanged and
\* in the same order.
C17_NoHostHeaderSent ==
    sr.pc # "idle" =>
        /\ \A k \in 1..Len(sr.req.headers) : sr.req.headers[k].k \notin HostSpellings
        /\ sr.req.headers = SelectSeq(sr.arg0, NotHost)

\* C17 witness: a call given User-Agent, HOST and host made an attempt with
\* User-Agent alone
C17_Witness ==
    /\ sr.pc # "idle"
    /\ sr.log # <<>>
    /\ sr.arg0 = <<Header("User-Agent", "ua"), Header("HOST", "h"), Header("host", "g")>>
    /\ sr.req.headers = <<Header("User-Agent", "ua")>>

-----------------------------------------------------------------------------
(* Properties of _sample_data, checked under SpecSample *)

\* C18: two _sample_data calls on the same input list return the same elements in
\* the same order, whatever state the generator was in before the first call and
\* whatever calls on other lists were made in between.
C18_SamplingDeterministic ==
    \A i, j \in 1..Len(sampleLog) :
        sampleLog[i].in = sampleLog[j].in => sampleLog[i].out = sampleLog[j].out

\* C18 witness: ten elements were sampled, then seven, then the same ten again, and
\* both calls on the ten returned elements 8 and 4 in that order
C18_Witness ==
    /\ Len(sampleLog) = 3
    /\ Len(sampleLog[1].in) = 10
    /\ Len(sampleLog[2].in) = 7
    /\ sampleLog[3].in = sampleLog[1].in
    /\ sampleLog[1].out = <<8, 4>>
    /\ sampleLog[3].out = <<8, 4>>

\* r is num/den rounded to the nearest integer, a tie going to the even neighbour
IsRounded(r, num, den) ==
    LET twice == 2 * (r * den - num)
    IN /\ -den <= twice /\ twice <= den
       /\ (twice = den \/ twice = -den) => r % 2 = 0

\* round(n * 0.15)
RoundedShare(n) == CHOOSE r \in 0..(n + 1) : IsRounded(r, FastModePercent * n, 100)

\* the elements of `out` are elements of `in`, no position of `in` taken twice
\* (the elements of an input list are pairwise distinct), and the caller's list
\* is after the call what it was before
DrawnFrom(call) ==
    /\ \A a \in 1..Len(call.out) : \E b \in 1..Len(call.in) : call.out[a] = call.in[b]
    /\ \A a, b \in 1..Len(call.out) : a # b => call.out[a] # call.out[b]
    /\ call.after = call.in

\* C19 as stated: every _sample_data call returns exactly max(1, round(len * 0.15))
\* elements, each taken from the input, no input position taken twice, and leaves
\* the input list as it was.
C19_SampleSizeAnyInput ==
    \A k \in 1..Len(sampleLog) :
        /\ Len(sampleLog[k].out) = Max(1, RoundedShare(Len(sampleLog[k].in)))
        /\ DrawnFrom(sampleLog[k])

\* C19 amended: every _sample_data call on a non-empty list returns exactly
\* max(1, round(len * 0.15)) elements and a call on the empty list returns the
\* empty list; the elements are taken from the input, no input position twice, and
\* the input list is left as it was.
C19_SampleSizeNonEmptyInput ==
    \A k \in 1..Len(sampleLog) :
        /\ Len(sampleLog[k].in) > 0 =>
             Len(sampleLog[k].out) = Max(1, RoundedShare(Len(sampleLog[k].in)))
        /\ Len(sampleLog[k].in) = 0 => sampleLog[k].out = <<>>
        /\ DrawnFrom(sampleLog[k])

\* C19 witness: a call on ten elements returned two different ones, a call on four
\* returned one, a call on the empty list returned nothing
C19_Witness ==
    /\ Len(sampleLog) = 3
    /\ Len(sampleLog[1].in) = 10 /\ Len(sampleLog[1].out) = 2
    /\ sampleLog[1].out[1] # sampleLog[1].out[2]
    /\ Len(sampleLog[2].in) = 4 /\ Len(sampleLog[2].out) = 1
    /\ sampleLog[3].in = <<>> /\ sampleLog[3].out = <<>>

-----------------------------------------------------------------------------
(* Properties of _validate_waf_config in _execute_workflow, checked under      *)
(* SpecWorkflow                                                                *)

NonBlank(s) == \E i \in 1..Len(s) : s[i] # " "

PairwiseDistinct(s) == \A i, j \in 1..Len(s) : i # j => s[i] # s[j]

\* the URL begins with http:// or https://, as written
StartsWithScheme(url) == url # <<>> /\ url[1] \in {"http://", "https://"}

\* the URL begins with http:// or https:// once leading blanks are dropped and
\* letter case is ignored
StartsWithSchemeLoosely(url) ==
    \E i \in 1..Len(url) :
        /\ \A j \in 1..(i - 1) : url[j] = " "
        /\ url[i] \in {"http://", "https://", "HTTP://"}

\* names and URLs are both given, equal in number, all non-blank, every URL has
\* an accepted scheme, the names differ pairwise and so do the URLs
WellFormed(names, urls, SchemeOk(_)) ==
    /\ names # <<>> /\ urls # <<>>
    /\ Len(names) = Len(urls)
    /\ \A i \in 1..Len(names) : NonBlank(names[i])
    /\ \A i \in 1..Len(urls) : NonBlank(urls[i]) /\ SchemeOk(urls[i])
    /\ PairwiseDistinct(names)
    /\ PairwiseDistinct(urls)

\* the mapping has exactly one entry per given name, name i mapped to URL i, no
\* name and no URL twice
OneToOne(config, names, urls) ==
    /\ Len(config) = Len(names)
    /\ \A i \in 1..Len(config) : config[i] = [name |-> names[i], url |-> urls[i]]
    /\ \A i, j \in 1..Len(config) :
         i # j => (config[i].name # config[j].name /\ config[i].url # config[j].url)

\* _validate_waf_config has returned a mapping
ConfigReturned == ew.pc \in {"runner", "done"} /\ ew.is_fresh_run

\* _validate_waf_config has been called and has ended
Validated == ew.is_fresh_run /\ ew.pc \in {"runner", "done", "exited"}

RunnerInvoked == \E i \in 1..Len(ew.calls) : ew.calls[i] = "runner"

-----------------------------------------------------------------------------
(* Properties of the pool and of the order of batches, checked under Spec *)

\* the send_request calls that were entered and have not returned, a call between
\* two attempts included
InFlightCalls == {i \in 1..Len(tasks) : tasks[i].st = "running"}

\* C21: at every instant the number of send_request calls in flight, those
\* waiting between two attempts included, is at most max_workers, however many
\* payloads the batch has.
C21_InFlightBounded == Cardinality(InFlightCalls) <= max_workers

\* C21 witness: a pool of one worker and a batch of two payloads; the first call
\* has failed once and is still in flight, the second payload is still queued
C21_Witness ==
    /\ pc = "pool"
    /\ max_workers = 1
    /\ Len(tasks) = 2
    /\ InFlightCalls = {1}
    /\ tasks[1].sr.attempts >= 1
    /\ tasks[2].st = "queued"

\* the (file, url) pair of the batch whose pool is open
CurrentPair == [file |-> files[fileIdx], url |-> wafs[wafIdx].url]

\* C22: batches are serialized. While a request is in flight, the control thread
\* is inside the pool of exactly one pair, the last one dispatched, that pair's
\* batch is not appended yet, and every request that was started carries that
\* pair's URL; when the last dispatched batch has been appended, each of its
\* requests has returned; outside a pool no request is in flight.
C22_BatchesSerialized ==
    /\ InFlightCalls # {} =>
         /\ pc = "pool"
         /\ Len(dispatchLog) = Len(recordLog) + 1
         /\ Last(dispatchLog) = CurrentPair
    /\ \A i \in 1..Len(tasks) :
         tasks[i].st # "queued" =>
            (dispatchLog # <<>> /\ IsPrefix(Last(dispatchLog).url, tasks[i].req.url))
    /\ Len(recordLog) = Len(dispatchLog) =>
         \A i \in 1..Len(tasks) : tasks[i].st = "done"
    /\ pc # "pool" => InFlightCalls = {}

\* C22 witness: the second pair's requests are in flight, the first pair's batch
\* is in the table and nothing of the second is
C22_Witness ==
    /\ pc = "pool"
    /\ Len(recordLog) = 1
    /\ Len(dispatchLog) = 2
    /\ Cardinality(InFlightCalls) = 2
    /\ dispatchLog[1].url # dispatchLog[2].url
    /\ \A i \in 1..Len(store.rows) : store.rows[i].DestinationURL = dispatchLog[1].url
    /\ store.rows # <<>>

-----------------------------------------------------------------------------
(* The summary of check_connection, checked under Spec *)

\* the loop of check_connection has ended for this run, by exit or by return
ChecksEnded == pc # "check"

\* C23: check_connection sends both probes to every configured WAF, whatever the
\* earlier probes returned; the summary has one entry per checked WAF, in order,
\* whose Health mark is pass iff the benign GET returned status 200 and whose
\* Functional mark is pass iff the script-injection request was blocked; the run
\* is aborted only when all configured WAFs have an entry.
C23_SummaryPerWaf ==
    /\ Len(results) = checkIdx
    /\ checkIdx <= Len(wafs)
    /\ \A i \in 1..Len(results) :
         /\ results[i].name = wafs[i].name
         /\ results[i].url = wafs[i].url
    /\ (pc = "check" \/ fatal = "check") =>
         /\ Len(probes) = Len(results)
         /\ \A i \in 1..Len(results) :
              /\ results[i].health <=> (probes[i].health.status = 200)
              /\ results[i].functional <=> probes[i].functional.blocked
    /\ ChecksEnded => Len(results) = Len(wafs)

\* C23 witness: the first WAF failed the health check with status 500 and still
\* got its functional probe, which passed; the second WAF was checked after that
\* failure and passed both; then the run was aborted
C23_Witness ==
    /\ fatal = "check"
    /\ Len(results) = 2
    /\ probes[1].health.status = 500
    /\ ~results[1].health /\ results[1].functional
    /\ results[2].health /\ results[2].functional

-----------------------------------------------------------------------------
(* DataSetType, the inverse WAF lookup and fast mode, checked under Spec and *)
(* SpecSharedUrl                                                             *)

\* C24: every row this run persisted has the DataSetType of the corpus directory
\* its test-case file was enumerated from, "Malicious" or "Legitimate", wherever
\* under that directory the recursive search found the file.
C24_DataSetTypeIsCorpus ==
    /\ dropCount = 1 =>
         \A i \in 1..Len(store.rows) :
            store.rows[i].DataSetType \in {"Malicious", "Legitimate"}
    /\ BatchRecorded =>
         \A i \in 1..Len(LastRows) : LastRows[i].DataSetType = Last(recordLog).file.root

\* two names of the WAF dict have the same URL
SharedUrl == \E i, j \in 1..Len(wafs) : i # j /\ wafs[i].url = wafs[j].url

\* the WAF the k-th _send_payloads call of a run is made for: the inner loop goes
\* through the dict's values in order, once per file
WafOfBatch(k) == wafs[((k - 1) % Len(wafs)) + 1]

\* C25: a WAF dict in which two names share a URL is refused at construction, so
\* no batch is ever dispatched for it; and every recorded batch carries the name
\* of the WAF it was sent for, never the name of a later entry with the same URL.
C25_SharedUrlRefused ==
    /\ SharedUrl => dispatchLog = <<>>
    /\ \A k \in 1..Len(recordLog) : recordLog[k].name = WafOfBatch(k).name

-----------------------------------------------------------------------------
(* Properties of the reporting aggregates, checked under SpecReport *)

\* the rows of the table with the given WAF, DataSetType and blocked flag that
\* carry a response (status other than 0); with AnyCategory, of every category
AnyCategory == "*"

Signal(w, t, c, blockedFlags) ==
    Cardinality({i \in 1..Len(store.rows) :
                   /\ store.rows[i].WAF_Name = w
                   /\ store.rows[i].DataSetType = t
                   /\ (c = AnyCategory \/ store.rows[i].Category = c)
                   /\ store.rows[i].response_status_code # 0
                   /\ store.rows[i].isBlocked \in blockedFlags})

\* the overall rates of load_data count only rows that carry a response
OverallRatesIgnoreNoSignal ==
    report.query = "load_data" =>
        \A l \in report.lines :
            /\ l.true_positive_rate.den = Signal(l.WAF_Name, "Malicious", AnyCategory, BOOLEAN)
            /\ l.true_positive_rate.num = Signal(l.WAF_Name, "Malicious", AnyCategory, {TRUE})
            /\ l.true_negative_rate.den = Signal(l.WAF_Name, "Legitimate", AnyCategory, BOOLEAN)
            /\ l.true_negative_rate.num = Signal(l.WAF_Name, "Legitimate", AnyCategory, {FALSE})

\* the per-category coverage rates count only rows that carry a response
CoverageRatesIgnoreNoSignal ==
    /\ report.query = "blocked_attack_coverage" =>
         \A l \in report.lines :
            /\ l.rate.den = Signal(report.waf_name, "Malicious", l.Category, BOOLEAN)
            /\ l.rate.num = Signal(report.waf_name, "Malicious", l.Category, {TRUE})
    /\ report.query = "allowed_legitimate_coverage" =>
         \A l \in report.lines :
            /\ l.rate.den = Signal(report.waf_name, "Legitimate", l.Category, BOOLEAN)
            /\ l.rate.num = Signal(report.waf_name, "Legitimate", l.Category, {FALSE})

\* C26: in every reporting aggregate a row with response_status_code 0 counts
\* neither in the numerator nor in the denominator: the overall true-positive
\* and true-negative rates and the per-category blocked and allowed coverage
\* rates are taken over the rows that carry a response, and a row without a
\* response is never counted as allowed.
C26_NoSignalRowsExcluded == OverallRatesIgnoreNoSignal /\ CoverageRatesIgnoreNoSignal

-----------------------------------------------------------------------------
(* Properties of fast mode across the WAFs, checked under Spec *)

\* the rows the table holds for one test-case file and one WAF, in table order
FileRows(f, name) ==
    SelectSeq(store.rows, LAMBDA r : /\ r.TestName = f.stem
                                     /\ r.DataSetType = f.parent
                                     /\ r.WAF_Name = name)

\* two rows carry the same payload
SamePayload(a, b) ==
    /\ a.method = b.method
    /\ a.url = b.url
    /\ a.headers = b.headers
    /\ a.data = b.data

\* a payload list without its headers
Unheadered(d) == [i \in 1..Len(d) |-> [method |-> d[i].method, url |-> d[i].url,
                                       data |-> d[i].data]]

-----------------------------------------------------------------------------
(* Termination of the calls, the batches and the run, checked under SpecFair *)

\* no call in the pool is past its third attempt
AttemptsBounded ==
    \A i \in 1..Len(tasks) :
        tasks[i].st = "running" =>
            /\ tasks[i].sr.attempts <= 3
            /\ Len(tasks[i].sr.log) <= 3

\* the step in which a call gives up changes that call's result to (0, False)
\* and no other call, payload or row
GiveUpIsolated ==
    \A i \in 1..Len(tasks) :
        (pc = "pool" /\ tasks[i].st = "running" /\ SrExhausted(tasks[i].sr)
         /\ tasks'[i].st = "done")
            => /\ tasks'[i].ret = ZeroResult
               /\ \A j \in 1..Len(tasks) : j # i => tasks'[j] = tasks[j]
               /\ data' = data
               /\ store' = store
               /\ pc' = pc

\* every payload of a batch eventually has its result, whatever the other calls
\* of the batch do
EveryPayloadAnswered ==
    \A i \in 1..MaxPayloads :
        (pc = "pool" /\ i <= Len(tasks)) ~> (i <= Len(tasks) /\ tasks[i].st = "done")

\* the calls of send_request return: safety and liveness of the pool
CallsReturn ==
    /\ []AttemptsBounded
    /\ [][GiveUpIsolated]_vars
    /\ EveryPayloadAnswered

\* the run ended because a precondition failed: no WAF configured, a fixture file
\* that could not be loaded, or the store refused a write
PreconditionFailed == fatal \in {"empty_config", "fixture", "persistence"}

\* send_payloads returned with one batch appended per file and WAF
FinishedComplete ==
    /\ pc \in {"finished", "done"}
    /\ Len(recordLog) = Len(files) * Len(wafs)

\* a run whose health checks passed ends finished and complete unless a
\* precondition fails
RunFinishes == (pc = "send_payloads") ~> (FinishedComplete \/ PreconditionFailed)

\* the same, also allowing the run to end in the KeyError of an empty batch
RunFinishesOrCrashes ==
    (pc = "send_payloads") ~> (FinishedComplete \/ PreconditionFailed \/ fatal = "KeyError")

\* C28: termination and non-starvation: under any pattern of transport failures
\* every send_request call returns after at most 3 attempts, every payload of a
\* batch eventually gets its result even when other calls of the batch exhaust
\* their retries (such a call's own entry becomes (0, False) and nothing else
\* changes), and a run whose health checks pass and whose fixtures load
\* eventually reaches the finished state with every batch appended.
C28_TerminationNonStarvation == CallsReturn /\ RunFinishes

-----------------------------------------------------------------------------
(* Properties of the two branches of _execute_workflow, checked under SpecWorkflow *)

\* whether a file existed when _execute_workflow was entered: it still exists or
\* the call unlinked it
ExistedAtStart(f) ==
    \/ f \in ew.unlinked
    \/ f = "db" /\ ew.db_exists
    \/ f = "config" /\ ew.config_exists

\* the call took its branch
Branched == ew.pc # "idle" /\ ew.pc # "start"

\* C29: on a fresh run (--fresh-run given, or the database file or the WAF
\* config file missing) the existing database and config files are deleted
\* before the arguments are validated: _clean_existing_data is the first call,
\* neither file exists when validation runs, and a validation failure exits
\* with both files removed and the runner never invoked.
C29_CleanedBeforeValidation ==
    Branched =>
        /\ (ew.fresh_run \/ ~ExistedAtStart("db") \/ ~ExistedAtStart("config"))
              => /\ ew.is_fresh_run
                 /\ ew.calls # <<>>
                 /\ ew.calls[1] = "clean"
                 /\ ~ew.db_exists
                 /\ ~ew.config_exists
        /\ \A k \in 1..Len(ew.calls) :
              ew.calls[k] = "validate" => k = 2 /\ ew.calls[1] = "clean"
        /\ ew.pc = "exited" =>
              /\ ew.failed_check # 0
              /\ ew.calls = <<"clean", "validate">>
              /\ ~ew.db_exists
              /\ ~ew.config_exists
              /\ ~RunnerInvoked

\* C29 witness: both files existed, --fresh-run was given with arguments that
\* fail validation; the call exited with both files unlinked
C29_Witness ==
    /\ ew.pc = "exited"
    /\ ew.fresh_run
    /\ ew.unlinked = {"db", "config"}
    /\ ~ew.db_exists
    /\ ~ew.config_exists
    /\ ew.failed_check # 0

\* C30: when --fresh-run is not given and both files exist, _execute_workflow
\* only runs the analyzer: no runner, no deletion, no validation, no request
\* sent and the results store untouched, whatever --waf-name, --waf-url,
\* --max-workers and --fast carry; in every other case the run is a fresh run.
C30_ExistingResultsOnlyAnalyzed ==
    Branched =>
        /\ ew.is_fresh_run <=>
              (ew.fresh_run \/ ~ExistedAtStart("db") \/ ~ExistedAtStart("config"))
        /\ ~ew.is_fresh_run =>
              /\ ew.calls \in {<<>>, <<"analyzer">>}
              /\ ew.pc = "done" => ew.calls = <<"analyzer">>
              /\ ew.unlinked = {}
              /\ ew.db_exists /\ ew.config_exists
              /\ ew.failed_check = 0
              /\ ew.exit_status = -1
              /\ ew.runner_args = <<>>
              /\ dispatchLog = <<>>
              /\ tasks = <<>>
              /\ sr = SrIdle
              /\ store = store0

\* C30 witness: both files exist and --fresh-run is absent; the analyzer ran
\* although the --waf-name/--waf-url arguments would fail validation and --fast
\* and two workers were asked for
C30_Witness ==
    /\ ew.pc = "done"
    /\ ~ew.fresh_run
    /\ ew.calls = <<"analyzer">>
    /\ FailedCheck(ew.waf_name, ew.waf_url) # 0
    /\ ew.fast
    /\ ew.max_workers = 2
    /\ ew.db_exists /\ ew.config_exists

====
